---- MODULE Spec2Model ----
(***************************************************************************)
(* A model of the tool-dispatch and conversation-state core of the        *)
(* AI-assistant repository: the Assistant (chat_assistant.py), the tools'  *)
(* run_tool argument handling, the tool factory (create_tools), the tool   *)
(* loader, the tool registry and the hand-off between the master and the   *)
(* mail assistant.                                                         *)
(*                                                                         *)
(* Nine specifications share the module:                                    *)
(*   Spec        one Assistant and any sequence of chat_with_tool calls    *)
(*   SpecTool    direct calls of a tool's run_tool                         *)
(*   SpecCreate  create_tools over dependency bags and registries          *)
(*   SpecLoader  a ToolLoader and the load_tools calls made on it           *)
(*   SpecRegistry  class definitions and the tool registry                  *)
(*   SpecSession the session state, the mail assistant and the hand-offs    *)
(*   SpecPinned  the pinned object, its rendering and the chats around it   *)
(*   SpecLiked   repeated runs of the playlist tool on one instance         *)
(*   SpecMaster  the construction of the master assistant                   *)
(***************************************************************************)
EXTENDS Integers, Sequences, FiniteSets, TLC

VARIABLES
    tools,      \* Assistant.tools: tool name -> tool instance
    history,    \* Assistant.history: the list of message dicts
    calls,      \* number of chat_with_tool invocations made so far
    last,       \* observation of the latest chat_with_tool invocation
    toolrun,    \* SpecTool: the latest direct run_tool call and its outcome
    factory,    \* SpecCreate: the create_tools input and its outcome
    loader,     \* SpecLoader: a ToolLoader and the load_tools calls made on it
    classes,    \* SpecRegistry: the classes defined so far and the registry
    session,    \* SpecSession: st.session_state and the assistants it holds
    pinned      \* SpecPinned: st.session_state["pinned_object"] and its renderings

vars == <<tools, history, calls, last, toolrun, factory, loader, classes, session, pinned>>

-----------------------------------------------------------------------------
(* Bounds of the model.                                                    *)

\* chat_with_tool invocations explored on one Assistant
MaxCalls == 2

-----------------------------------------------------------------------------
(* Python values produced by json.loads.  Every value is a record with the *)
(* same fields, so that values of different Python types can be compared.  *)

PyNone == [t |-> "none", s |-> "", n |-> 0, l |-> <<>>, d |-> <<>>]

JStr(s) == [t |-> "str", s |-> s, n |-> 0, l |-> <<>>, d |-> <<>>]

JInt(n) == [t |-> "int", s |-> "", n |-> n, l |-> <<>>, d |-> <<>>]

JBool(b) == [t |-> "bool", s |-> "", n |-> IF b THEN 1 ELSE 0, l |-> <<>>, d |-> <<>>]

JList(l) == [t |-> "list", s |-> "", n |-> 0, l |-> l, d |-> <<>>]

JDict(d) == [t |-> "dict", s |-> "", n |-> 0, l |-> <<>>, d |-> d]

\* the one element of a singleton set; The({e(x) : x \in {v}}) is e(v) with v
\* evaluated once
The(set) == CHOOSE x \in set : TRUE

\* d[k] = v on a Python dict: a repeated key keeps the last value
DictSet(d, k, v) ==
    The({[x \in (DOMAIN dd) \cup {k} |-> IF x = k THEN v ELSE dd[x]] : dd \in {d}})

-----------------------------------------------------------------------------
(* Text.  A string the program parses as JSON is modelled after lexing, as *)
(* a sequence of tokens; json.loads is the parser over that sequence.      *)

P(sym) == [k |-> "p", s |-> sym, n |-> 0]        \* punctuation { } [ ] , :

S(str) == [k |-> "str", s |-> str, n |-> 0]      \* a double-quoted string

N(num) == [k |-> "num", s |-> "", n |-> num]     \* an integer literal

K(word) == [k |-> "kw", s |-> word, n |-> 0]     \* true, false, null

X(txt) == [k |-> "bad", s |-> txt, n |-> 0]      \* text that is no JSON token

F(txt) == [k |-> "fence", s |-> txt, n |-> 0]    \* a markdown code fence line

IsP(tok, sym) == tok.k = "p" /\ tok.s = sym

KwValue(word) ==
    CASE word = "true" -> JBool(TRUE)
      [] word = "false" -> JBool(FALSE)
      [] OTHER -> PyNone

ParseFail == [ok |-> FALSE, val |-> PyNone, next |-> 0]

ParseOk(v, nxt) == [ok |-> TRUE, val |-> v, next |-> nxt]

RECURSIVE ParseValue(_, _)
RECURSIVE ParseElements(_, _, _)
RECURSIVE ParseMembers(_, _, _)

\* one JSON value starting at token i
ParseValue(toks, i) ==
    IF i > Len(toks) THEN ParseFail
    ELSE LET tk == toks[i] IN
         CASE tk.k = "str" -> ParseOk(JStr(tk.s), i + 1)
           [] tk.k = "num" -> ParseOk(JInt(tk.n), i + 1)
           [] tk.k = "kw" -> ParseOk(KwValue(tk.s), i + 1)
           [] IsP(tk, "[") ->
                IF i + 1 <= Len(toks) /\ IsP(toks[i + 1], "]")
                THEN ParseOk(JList(<<>>), i + 2)
                ELSE ParseElements(toks, i + 1, <<>>)
           [] IsP(tk, "{") ->
                IF i + 1 <= Len(toks) /\ IsP(toks[i + 1], "}")
                THEN ParseOk(JDict(<<>>), i + 2)
                ELSE ParseMembers(toks, i + 1, <<>>)
           [] OTHER -> ParseFail

\* the elements of an array, the next one starting at token i
ParseElements(toks, i, acc) ==
    The({IF ~v.ok \/ v.next > Len(toks) THEN ParseFail
         ELSE IF IsP(toks[v.next], "]") THEN ParseOk(JList(Append(acc, v.val)), v.next + 1)
         ELSE IF IsP(toks[v.next], ",") THEN ParseElements(toks, v.next + 1, Append(acc, v.val))
         ELSE ParseFail
         : v \in {ParseValue(toks, i)}})

\* the members of an object, the next key at token i
ParseMembers(toks, i, acc) ==
    IF i + 1 > Len(toks) \/ toks[i].k # "str" \/ ~IsP(toks[i + 1], ":") THEN ParseFail
    ELSE The({IF ~v.ok \/ v.next > Len(toks) THEN ParseFail
              ELSE IF IsP(toks[v.next], "}")
                   THEN ParseOk(JDict(DictSet(acc, toks[i].s, v.val)), v.next + 1)
              ELSE IF IsP(toks[v.next], ",")
                   THEN ParseMembers(toks, v.next + 1, DictSet(acc, toks[i].s, v.val))
              ELSE ParseFail
              : v \in {ParseValue(toks, i + 2)}})

\* json.loads(text): the value, or JSONDecodeError (ok = FALSE) unless the
\* whole text is exactly one JSON value
JsonLoads(toks) ==
    The({IF v.ok /\ v.next = Len(toks) + 1
         THEN [ok |-> TRUE, val |-> v.val]
         ELSE [ok |-> FALSE, val |-> PyNone]
         : v \in {ParseValue(toks, 1)}})

-----------------------------------------------------------------------------
(* Display text.  An answer_str is built by concatenation and f-strings;   *)
(* it is modelled as the sequence of its fragments: literal text, raw text *)
(* (a token sequence) or an interpolated value.                            *)

Lit(txt) == [k |-> "lit", lit |-> txt, toks |-> <<>>, val |-> PyNone]

Raw(toks) == [k |-> "raw", lit |-> "", toks |-> toks, val |-> PyNone]

Val(v) == [k |-> "val", lit |-> "", toks |-> <<>>, val |-> v]

\* an exception leaving a function / a value returned by it
Raise(exc, inst) == [raised |-> TRUE, exc |-> exc, answer |-> <<>>, inst |-> inst]

Return(answer, inst) == [raised |-> FALSE, exc |-> "", answer |-> answer, inst |-> inst]

\* v[key] on a Python value: KeyError on a dict without the key, TypeError
\* on a value that is no dict
Subscript(v, key) ==
    IF v.t = "dict"
    THEN IF key \in DOMAIN v.d
         THEN [ok |-> TRUE, exc |-> "", val |-> v.d[key]]
         ELSE [ok |-> FALSE, exc |-> "KeyError", val |-> PyNone]
    ELSE [ok |-> FALSE, exc |-> "TypeError", val |-> PyNone]

\* isinstance(v, str)
IsStr(v) == v.t = "str"

\* isinstance(v, int): a Python bool is an int
IsInt(v) == v.t \in {"int", "bool"}

\* _clean_up_str: the code-fence lines are removed from the model's output
clean_up_str(raw_str) == SelectSeq(raw_str, LAMBDA tk : tk.k # "fence")

-----------------------------------------------------------------------------
(* The tools.  env is what the outside world answers during one run_tool:  *)
(*   payload   the text the downstream model returns                       *)
(*   has_text  FALSE when the chat completion carries no text (None)       *)
(*   liked     the list catch_liked_songs() returns                        *)
(*   imap_ok   whether the IMAP search succeeds                            *)

\* WikipediaFactCheckerTool._create_answer
wikipedia_create_answer(answer_dict, inst) ==
    LET status == Subscript(answer_dict, "article_answers_question")
        answer == Subscript(answer_dict, "answer")
        link == Subscript(answer_dict, "wikipedia_link")
    IN  IF ~status.ok THEN Raise(status.exc, inst)
        ELSE IF status.val = JStr("NoArticleFound")
        THEN Return([answer_str |-> <<Lit("No relevant Wikipedia article found to answer the question.")>>], inst)
        ELSE IF ~answer.ok THEN Raise(answer.exc, inst)
        ELSE IF ~link.ok THEN Raise(link.exc, inst)
        ELSE IF status.val = JStr("Inconclusive")
        THEN Return([answer_str |-> <<Lit("Found a Wikipedia article but it does not conclusively answer the question. Closest Answer: "),
                                      Val(answer.val), Lit("Link: "), Val(link.val)>>], inst)
        ELSE Return([answer_str |-> <<Val(answer.val), Lit("Source: "), Val(link.val)>>], inst)

\* WikipediaFactCheckerTool.run_tool
wikipedia_run_tool(inst, kwargs, env) ==
    IF "question" \notin DOMAIN kwargs THEN Raise("KeyError", inst)
    ELSE IF ~IsStr(kwargs["question"]) THEN Raise("AssertionError", inst)
    ELSE The({LET result_str == env.payload
                  inst2 == [inst EXCEPT !.state.result = IF parsed.ok THEN parsed.val ELSE @]
              IN  IF ~parsed.ok
                  THEN Return([answer_str |-> <<Lit("Could not parse response: "), Raw(result_str)>>], inst)
                  ELSE IF parsed.val = PyNone
                  THEN Return([answer_str |-> <<Lit("No result returned from model.")>>], inst2)
                  ELSE wikipedia_create_answer(parsed.val, inst2)
              : parsed \in {JsonLoads(clean_up_str(env.payload))}})

RECURSIVE recipe_answer_str(_, _)
\* the loop of RecipeSuggestTool.create_answer from recipe number index on:
\* the text, or the exception of the first recipe that lacks a field
recipe_answer_str(suggested_recipes, index) ==
    IF index > Len(suggested_recipes) THEN [ok |-> TRUE, exc |-> "", text |-> <<>>]
    ELSE LET title == Subscript(suggested_recipes[index], "title")
             descr == Subscript(suggested_recipes[index], "description_and_advertisment")
         IN  IF ~title.ok THEN [ok |-> FALSE, exc |-> title.exc, text |-> <<>>]
             ELSE IF ~descr.ok THEN [ok |-> FALSE, exc |-> descr.exc, text |-> <<>>]
             ELSE The({IF ~rest.ok THEN rest
                       ELSE [ok |-> TRUE, exc |-> "",
                             text |-> <<Lit("Recipe: "), Val(title.val), Val(descr.val)>> \o rest.text]
                       : rest \in {recipe_answer_str(suggested_recipes, index + 1)}})

\* RecipeSuggestTool.create_answer
recipe_create_answer(suggested_recipes, inst) ==
    \* enumerate() over a value that is no list: a dict yields its keys and a
    \* string its characters, whose ['title'] is a TypeError; None, an int or a
    \* bool cannot be iterated; only an empty container yields nothing
    IF suggested_recipes.t = "list"
    THEN The({IF r.ok THEN Return([answer_str |-> r.text, recipes |-> suggested_recipes], inst)
              ELSE Raise(r.exc, inst)
              : r \in {recipe_answer_str(suggested_recipes.l, 1)}})
    ELSE IF \/ suggested_recipes.t = "dict" /\ DOMAIN suggested_recipes.d = {}
            \/ suggested_recipes.t = "str" /\ suggested_recipes.s = ""
    THEN Return([answer_str |-> <<>>, recipes |-> suggested_recipes], inst)
    ELSE Raise("TypeError", inst)

\* RecipeSuggestTool.run_tool
recipe_run_tool(inst, kwargs, env) ==
    IF "description_recipe" \notin DOMAIN kwargs THEN Raise("KeyError", inst)
    ELSE IF ~IsStr(kwargs["description_recipe"]) THEN Raise("AssertionError", inst)
    ELSE The({LET recipe_list_str == env.payload
              IN  IF ~parsed.ok
                  THEN Return([answer_str |-> <<Lit("could not convert the following string into a dictionary:"),
                                                Raw(recipe_list_str)>>,
                               recipes |-> JList(<<>>)], inst)
                  ELSE recipe_create_answer(parsed.val, inst)
              : parsed \in {JsonLoads(clean_up_str(env.payload))}})

RECURSIVE JoinText(_, _)
\* ", ".join(songs) from song number i on
JoinText(songs, i) ==
    IF i > Len(songs) THEN <<>>
    ELSE IF i = Len(songs) THEN <<Lit(songs[i])>>
    ELSE <<Lit(songs[i]), Lit(", ")>> \o JoinText(songs, i + 1)

\* not text: a Python string is falsy exactly when it is empty
EmptyText(text) == \A i \in 1..Len(text) : text[i].k = "lit" /\ text[i].lit = ""

RECURSIVE spotify_songs(_, _, _)
\* the loop over song_dict["songs"] from song number i on: create_playlist
\* (need_artist: make_song_string reads song['name'] and song['artist']) and
\* create_answer (song['name'] and song.get('artist', ''))
spotify_songs(songs, i, need_artist) ==
    IF i > Len(songs) THEN [ok |-> TRUE, exc |-> "", text |-> <<>>]
    ELSE LET name == Subscript(songs[i], "name")
             artist == Subscript(songs[i], "artist")
         IN  IF ~name.ok THEN [ok |-> FALSE, exc |-> name.exc, text |-> <<>>]
             ELSE IF need_artist /\ ~artist.ok THEN [ok |-> FALSE, exc |-> artist.exc, text |-> <<>>]
             ELSE The({IF ~rest.ok THEN rest
                       ELSE [ok |-> TRUE, exc |-> "",
                             text |-> <<Val(name.val), Lit(" - "),
                                        IF artist.ok THEN Val(artist.val) ELSE Lit("")>> \o rest.text]
                       : rest \in {spotify_songs(songs, i + 1, need_artist)}})

\* SpotifyTool.create_answer
spotify_create_answer(name, songs, inst) ==
    The({IF r.ok
         THEN Return([answer_str |-> <<Lit("Created playlist with name "), Val(name),
                                       Lit(" with the following songs:")>> \o r.text], inst)
         ELSE Raise(r.exc, inst)
         : r \in {spotify_songs(songs.l, 1, FALSE)}})

\* SpotifyTool.run_tool
spotify_run_tool(inst, kwargs, env) ==
    IF "description_playlist" \notin DOMAIN kwargs THEN Raise("KeyError", inst)
    ELSE LET description_playlist == kwargs["description_playlist"]
             use_liked_songs == IF "use_liked_songs" \in DOMAIN kwargs
                                THEN kwargs["use_liked_songs"] ELSE JBool(FALSE)
             liked_songs_description == IF "liked_songs_description" \in DOMAIN kwargs
                                        THEN kwargs["liked_songs_description"] ELSE JStr("")
             fetch == /\ use_liked_songs = JBool(TRUE)
                      /\ (inst.state.song_list.none \/ EmptyText(inst.state.song_list.text))
             inst2 == IF fetch
                      THEN [inst EXCEPT !.state.song_list = [none |-> FALSE, text |-> JoinText(env.liked, 1)],
                                        !.state.fetches = @ + 1]
                      ELSE inst
         IN  IF ~(IsStr(description_playlist) /\ use_liked_songs.t = "bool" /\ IsStr(liked_songs_description))
             THEN Raise("AssertionError", inst)
             ELSE IF ~env.has_text
             THEN Return([answer_str |-> <<Lit("Failed to create playlist: No response from model.")>>], inst2)
             ELSE The({LET name == Subscript(parsed.val, "name")
                           songs == Subscript(parsed.val, "songs")
                       IN  IF ~parsed.ok THEN Raise("JSONDecodeError", inst2)
                           ELSE IF ~name.ok THEN Raise(name.exc, inst2)
                           ELSE IF ~songs.ok THEN Raise(songs.exc, inst2)
                           \* create_playlist: iterating a value that is no list of songs fails
                           ELSE IF songs.val.t # "list" THEN Raise("TypeError", inst2)
                           ELSE The({IF ~made.ok THEN Raise(made.exc, inst2)
                                     ELSE spotify_create_answer(name.val, songs.val, inst2)
                                     : made \in {spotify_songs(songs.val.l, 1, TRUE)}})
                       : parsed \in {JsonLoads(env.payload)}})

\* MailSummarizerTool.run_tool
summarize_run_tool(inst, kwargs, env) ==
    IF "days_from_to" \notin DOMAIN kwargs THEN Raise("KeyError", inst)
    ELSE LET question == IF "question" \in DOMAIN kwargs THEN kwargs["question"] ELSE PyNone
             days_from_to == kwargs["days_from_to"]
         IN  IF ~(IsStr(question) \/ question = PyNone) THEN Raise("AssertionError", inst)
             ELSE IF ~(/\ days_from_to.t = "list"
                       /\ Len(days_from_to.l) = 2
                       /\ \A i \in 1..Len(days_from_to.l) : IsInt(days_from_to.l[i]))
             THEN Raise("AssertionError", inst)
             \* self.mail.select("inbox") on a tool that was given no mail object
             ELSE IF inst.state.mail = "none" THEN Raise("AttributeError", inst)
             \* fetch_emails: status != "OK"
             ELSE IF ~env.imap_ok THEN Raise("ValueError", inst)
             ELSE Return([answer_str |-> <<Raw(env.payload)>>, list_of_mails |-> JList(<<>>)], inst)

\* tool.run_tool(kwargs) on an instance: the method of its class; a class
\* that does not override it inherits Tool.run_tool
run_tool(inst, kwargs, env) ==
    CASE inst.cls = "WikipediaFactCheckerTool" -> wikipedia_run_tool(inst, kwargs, env)
      [] inst.cls = "RecipeSuggestTool" -> recipe_run_tool(inst, kwargs, env)
      [] inst.cls = "SpotifyTool" -> spotify_run_tool(inst, kwargs, env)
      [] inst.cls = "MailSummarizerTool" -> summarize_run_tool(inst, kwargs, env)
      [] OTHER -> Raise("NotImplementedError", inst)

-----------------------------------------------------------------------------
(* Tool types and the tool factory (tool_creator/create.py).               *)

\* a registered tool class: its name, the parameter names of its __init__,
\* the name its tool_dict declares and its group
ToolType(cls, params, name, group) ==
    [cls |-> cls, params |-> params, name |-> name, group |-> group]

WikipediaFactCheckerTool ==
    ToolType("WikipediaFactCheckerTool", <<"model", "openai">>, "check_fact_wikipedia", "general")

RecipeSuggestTool ==
    ToolType("RecipeSuggestTool", <<"model", "openai">>, "find_recipe_online", "general")

SpotifyTool ==
    ToolType("SpotifyTool", <<"model", "openai">>, "create_spotify_playlist", "general")

MailSummarizerTool ==
    ToolType("MailSummarizerTool", <<"model", "openai">>, "summarize_emails", "email")

ModeResetter ==
    ToolType("ModeResetter", <<>>, "switch_back_to_master_mode", "sub_assistant")

MailModeSwitcher ==
    ToolType("MailModeSwitcher", <<"tool_loader">>, "switch_to_mail_mode", "general")

\* the class of the same name and the same declared tool name that the older
\* tools package defines
OldWikipediaFactCheckerTool ==
    ToolType("tools._tools.WikipediaFactCheckerTool", <<"model", "openai">>, "check_fact_wikipedia", "general")

\* the one-parameter tool classes of the factory's component tests
MockToolB == ToolType("MockToolB", <<"model">>, "mock_tool_b", "general")

MockToolC == ToolType("MockToolC", <<"openai">>, "mock_tool_c", "general")

\* the fields a constructor sets besides the ones it is passed:
\* _result / _song_list / mail are None on a new instance
NewState ==
    [result |-> PyNone, song_list |-> [none |-> TRUE, text |-> <<>>], fetches |-> 0, mail |-> "none"]

\* cls(filtered_kwargs): the new instance keeps what it was passed
Construct(cls, filtered_kwargs) ==
    [cls |-> cls.cls, name |-> cls.name, group |-> cls.group,
     init |-> filtered_kwargs, state |-> NewState]

SeqRange(seq) == {seq[i] : i \in 1..Len(seq)}

\* _get_attributes: the parameter names of the class' constructor
get_attributes(class_to_inspect) == class_to_inspect.params

\* a bug the factory could have: the whole bag is handed to the constructor
get_subkwargs_whole_bag(kwargs, keys) == [ok |-> TRUE, val |-> kwargs]

\* a bug the factory could have: a parameter the bag lacks is left out
get_subkwargs_skip_missing(kwargs, keys) ==
    [ok |-> TRUE, val |-> [key \in SeqRange(keys) \cap DOMAIN kwargs |-> kwargs[key]]]

\* _get_subkwargs: {key: kwargs[key] for key in keys}; a key that kwargs
\* lacks is a KeyError (ok = FALSE)
get_subkwargs(kwargs, keys) ==
    IF SeqRange(keys) \subseteq DOMAIN kwargs
    THEN [ok |-> TRUE, val |-> [key \in SeqRange(keys) |-> kwargs[key]]]
    ELSE [ok |-> FALSE, val |-> <<>>]

RECURSIVE create_tools_loop(_, _, _, _, _)
\* the for loop of create_tools from registry entry i on; ctor_calls lists
\* the constructor calls made so far (class, keyword arguments)
create_tools_loop(registry, kwargs, i, initialized_objects, ctor_calls) ==
    IF i > Len(registry)
    THEN [raised |-> FALSE, exc |-> "", tools |-> initialized_objects, ctor_calls |-> ctor_calls]
    ELSE The({IF ~filtered_kwargs.ok
              THEN [raised |-> TRUE, exc |-> "KeyError", tools |-> <<>>, ctor_calls |-> ctor_calls]
              ELSE The({create_tools_loop(registry, kwargs, i + 1, objects, calls_made)
                        : objects \in {LET obj == Construct(registry[i], filtered_kwargs.val)
                                       IN  DictSet(initialized_objects, obj.name, obj)},
                          calls_made \in {Append(ctor_calls, [cls |-> registry[i].cls,
                                                              kwargs |-> filtered_kwargs.val])}})
              : filtered_kwargs \in {get_subkwargs(kwargs, get_attributes(registry[i]))}})

\* create_tools(kwargs) over the registry
create_tools(registry, kwargs) == create_tools_loop(registry, kwargs, 1, <<>>, <<>>)

-----------------------------------------------------------------------------
(* The Assistant (chat_assistant.py).                                      *)

MODEL_SEARCH == "gpt-4o-mini"

\* message.content of a response that carries no text (Python None)
ContentNone == "<None>"

\* the tool classes the tools package defines, in import order
Registry == <<RecipeSuggestTool, SpotifyTool, WikipediaFactCheckerTool>>

\* Assistant.__init__: self.tools = create_tools(model=MODEL_SEARCH, openai=self.openai)
AssistantTools == create_tools(Registry, [model |-> MODEL_SEARCH, openai |-> "client"]).tools

\* a bug history handling could have: the list is replaced, not appended to
AppendTurn_replace(h, turn) == <<turn>>

\* self.history.append(turn)
AppendTurn(h, turn) == Append(h, turn)

\* {"role": "user", "content": message}
UserTurn(message) == [role |-> "user", content |-> message]

\* a bug the text turn could have: it carries a list of tool calls
AssistantTurn_with_calls(content) ==
    [role |-> "assistant", content |-> content, tool_calls |-> <<>>]

\* {"role": "assistant", "content": response.choices[0].message.content}
AssistantTurn(content) == [role |-> "assistant", content |-> content]

\* the assistant turn that records the tool call
ToolCallTurn(tool_call, function_name, arguments_str) ==
    [role |-> "assistant", content |-> "",
     tool_calls |-> <<[id |-> tool_call.id,
                       function |-> [name |-> function_name, arguments |-> arguments_str],
                       type |-> tool_call.type]>>]

\* a bug the tool turn could have: it carries the name, not the id, of the call
ToolTurn_name_as_id(tool_answer, function_name, tool_call) ==
    [role |-> "tool", content |-> "", tool_answer |-> tool_answer,
     tool_name |-> function_name, tool_call_id |-> function_name]

\* a bug the tool turn could have: it carries the id of the call as the
\* name of the tool
ToolTurn_id_as_name(tool_answer, function_name, tool_call) ==
    [role |-> "tool", content |-> "", tool_answer |-> tool_answer,
     tool_name |-> tool_call.id, tool_call_id |-> tool_call.id]

\* the tool turn that records the tool's answer
ToolTurn(tool_answer, function_name, tool_call) ==
    [role |-> "tool", content |-> "", tool_answer |-> tool_answer,
     tool_name |-> function_name, tool_call_id |-> tool_call.id]

NoToolCall == [id |-> "", type |-> "", has_function |-> FALSE,
               function |-> [name |-> "", arguments |-> <<>>]]

\* a bug the extraction could have: the last requested call is taken
PickToolCall_last(tool_calls) == tool_calls[Len(tool_calls)]

\* message.tool_calls[0]
PickToolCall(tool_calls) == tool_calls[1]

\* Assistant.get_attributes_from_tool_call_message: the 4-tuple
\* (tool_call, name, parsed arguments, raw arguments); found = FALSE is the
\* tuple (None, "", {}, ""); raised = TRUE is json.loads failing
get_attributes_from_tool_call_message(message) ==
    LET none == [raised |-> FALSE, exc |-> "", found |-> FALSE, tool_call |-> NoToolCall,
                 function_name |-> "", arguments |-> JDict(<<>>), arguments_str |-> <<>>]
        tool_call == PickToolCall(message.tool_calls)
        arguments_str == tool_call.function.arguments
    IN  IF message.tool_calls = <<>> THEN none
        ELSE IF ~tool_call.has_function THEN none
        ELSE The({IF ~parsed.ok THEN [none EXCEPT !.raised = TRUE, !.exc = "JSONDecodeError"]
                  ELSE [raised |-> FALSE, exc |-> "", found |-> TRUE, tool_call |-> tool_call,
                        function_name |-> tool_call.function.name, arguments |-> parsed.val,
                        arguments_str |-> arguments_str]
                  : parsed \in {JsonLoads(arguments_str)}})

\* what a call of handle_tools leaves behind: whether it raised, the history
\* and tools after it, the value it returned and the run_tool calls it made
\* (ran: tool name, keyword arguments, length of the history at that moment)
Handled(raised, exc, h, tls, result, ran) ==
    [raised |-> raised, exc |-> exc, history |-> h, tools |-> tls, result |-> result, ran |-> ran]

\* Assistant.handle_tools
handle_tools(h, tls, message, env) ==
    The({LET h1 == AppendTurn(h, ToolCallTurn(attrs.tool_call, attrs.function_name, attrs.arguments_str))
             ran == <<[name |-> attrs.function_name, kwargs |-> attrs.arguments.d, hlen |-> Len(h1)]>>
         IN  IF attrs.raised THEN Handled(TRUE, attrs.exc, h, tls, <<>>, <<>>)
             ELSE IF ~attrs.found
             THEN Handled(FALSE, "", h, tls, [answer_str |-> <<Lit("Error: No tool call found.")>>], <<>>)
             \* self.tools[function_name]: KeyError for a name that is no key
             ELSE IF attrs.function_name \notin DOMAIN tls THEN Handled(TRUE, "KeyError", h1, tls, <<>>, <<>>)
             \* run_tool(arguments): TypeError when arguments is no mapping
             ELSE IF attrs.arguments.t # "dict" THEN Handled(TRUE, "TypeError", h1, tls, <<>>, <<>>)
             ELSE The({LET tls2 == [tls EXCEPT ![attrs.function_name] = r.inst]
                           h2 == AppendTurn(h1, ToolTurn(r.answer, attrs.function_name, attrs.tool_call))
                       IN  IF r.raised THEN Handled(TRUE, r.exc, h1, tls2, <<>>, ran)
                           ELSE Handled(FALSE, "", h2, tls2, r.answer, ran)
                       : r \in {run_tool(tls[attrs.function_name], attrs.arguments.d, env)}})
         : attrs \in {get_attributes_from_tool_call_message(message)}})

\* a bug the dispatch could have: every finish reason but "stop" is taken
\* for a tool call
IsToolCallFinish_not_stop(finish_reason) == finish_reason # "stop"

\* response.choices[0].finish_reason == "tool_calls"
IsToolCallFinish(finish_reason) == finish_reason = "tool_calls"

\* self.tool_dicts: one descriptor for every value of self.tools, in the
\* order of the dict, which is the order of the registry
tool_dicts(tls) ==
    LET first == {i \in 1..Len(Registry) :
                     /\ Registry[i].name \in DOMAIN tls
                     /\ \A j \in 1..(i - 1) : Registry[j].name # Registry[i].name}
        names == SelectSeq([i \in 1..Len(Registry) |-> IF i \in first THEN Registry[i].name ELSE ""],
                           LAMBDA n : n # "")
    IN  [i \in 1..Len(names) |-> [type |-> "function", function |-> [name |-> tls[names[i]].name]]]

\* a bug the request could have: the history is sent without the user turn
\* that was just appended
RequestMessages_stale(system_message, h) ==
    <<[role |-> "system", content |-> system_message]>> \o SubSeq(h, 1, Len(h) - 1)

\* [{"role": "system", "content": self.system_message}, *self.history]
RequestMessages(system_message, h) ==
    <<[role |-> "system", content |-> system_message]>> \o h

\* a bug chat_with_tool could have: after a tool ran, the model is called
\* again with the history that holds the tool's result
chat_with_tool_again(h, tls, message, response, env) ==
    LET h1 == AppendTurn(h, UserTurn(message))
        messages == RequestMessages("You are an AI assistant.", h1)
        requests == <<[messages |-> messages, tools |-> tool_dicts(tls)]>>
    IN  IF IsToolCallFinish(response.finish_reason)
        THEN The({[raised |-> t.raised, exc |-> t.exc, history |-> t.history, tools |-> t.tools,
                   handled |-> TRUE, result |-> t.result, ran |-> t.ran,
                   requests |-> IF t.ran = <<>> THEN requests
                                ELSE requests \o <<[messages |-> RequestMessages("You are an AI assistant.", t.history),
                                                    tools |-> tool_dicts(tls)]>>]
                  : t \in {handle_tools(h1, tls, response.message, env)}})
        ELSE [raised |-> FALSE, exc |-> "", history |-> AppendTurn(h1, AssistantTurn(response.message.content)),
              tools |-> tls, handled |-> FALSE, result |-> <<>>, ran |-> <<>>, requests |-> requests]

\* Assistant.chat_with_tool: what the call leaves behind; requests lists the
\* model calls made (messages, tools), handled whether handle_tools ran
chat_with_tool(h, tls, message, response, env) ==
    LET h1 == AppendTurn(h, UserTurn(message))
        messages == RequestMessages("You are an AI assistant.", h1)
        requests == <<[messages |-> messages, tools |-> tool_dicts(tls)]>>
    IN  IF IsToolCallFinish(response.finish_reason)
        THEN The({[raised |-> t.raised, exc |-> t.exc, history |-> t.history, tools |-> t.tools,
                   handled |-> TRUE, result |-> t.result, ran |-> t.ran, requests |-> requests]
                  : t \in {handle_tools(h1, tls, response.message, env)}})
        ELSE [raised |-> FALSE, exc |-> "", history |-> AppendTurn(h1, AssistantTurn(response.message.content)),
              tools |-> tls, handled |-> FALSE, result |-> <<>>, ran |-> <<>>, requests |-> requests]

-----------------------------------------------------------------------------
(* Inputs: what the user types, what the model answers and what the        *)
(* outside world returns to a running tool.                                *)

UserTexts == {"hello", "make me a playlist"}

\* raw argument strings of a tool call
ArgQuestion == <<P("{"), S("question"), P(":"), S("q"), P("}")>>

ArgRecipe == <<P("{"), S("description_recipe"), P(":"), S("d"), P("}")>>

ArgPlaylist == <<P("{"), S("description_playlist"), P(":"), S("p"), P(","),
                 S("use_liked_songs"), P(":"), K("true"), P("}")>>

ArgEmpty == <<P("{"), P("}")>>

ArgQuestionInt == <<P("{"), S("question"), P(":"), N(7), P("}")>>

\* single-quoted key: no JSON
ArgNotJson == <<P("{"), X("'question'"), P(":"), S("q"), P("}")>>

\* cut off in the middle
ArgTruncated == <<P("{"), S("question"), P(":")>>

\* JSON, but no object
ArgList == <<P("["), N(7), P("]")>>

ArgDays == <<P("{"), S("days_from_to"), P(":"), P("["), N(7), P(","), N(0), P("]"), P("}")>>

ArgDaysShort == <<P("{"), S("days_from_to"), P(":"), P("["), N(7), P("]"), P("}")>>

ArgDaysQuestionInt == <<P("{"), S("days_from_to"), P(":"), P("["), N(7), P(","), N(0), P("]"), P(","),
                        S("question"), P(":"), N(7), P("}")>>

\* a tool call of a response, and one that carries no function
Call(id, name, arguments) ==
    [id |-> id, type |-> "function", has_function |-> TRUE,
     function |-> [name |-> name, arguments |-> arguments]]

CallWithoutFunction(id) ==
    [id |-> id, type |-> "custom", has_function |-> FALSE,
     function |-> [name |-> "", arguments |-> <<>>]]

\* the calls a response may request first
FirstCalls ==
    <<CallWithoutFunction("call_1"),
      Call("call_1", "check_fact_wikipedia", ArgQuestion),
      Call("call_3", "find_recipe_online", ArgRecipe),
      Call("call_1", "create_spotify_playlist", ArgPlaylist),
      Call("call_1", "check_fact_wikipedia", ArgEmpty),
      Call("call_1", "check_fact_wikipedia", ArgQuestionInt),
      Call("call_1", "find_recipe_online", ArgQuestion),
      Call("call_1", "check_fact_wikipedia", ArgNotJson),
      Call("call_1", "check_fact_wikipedia", ArgTruncated),
      Call("call_1", "check_fact_wikipedia", ArgList),
      Call("call_1", "no_such_tool", ArgQuestion),
      Call("call_1", "summarize_emails", ArgDays)>>

\* a further call a response may request after the first
SecondCall == Call("call_2", "find_recipe_online", ArgRecipe)

PlainResponse(finish_reason, content) ==
    [finish_reason |-> finish_reason, message |-> [content |-> content, tool_calls |-> <<>>]]

ToolCallResponse(tool_calls) ==
    [finish_reason |-> "tool_calls", message |-> [content |-> ContentNone, tool_calls |-> tool_calls]]

\* the responses of the model that are explored
Responses ==
    <<ToolCallResponse(<<>>),
      PlainResponse("stop", "4"),
      PlainResponse("stop", ContentNone),
      PlainResponse("length", "4"),
      \* the finish reason decides, also when the message lists a call
      [PlainResponse("stop", "4") EXCEPT !.message.tool_calls = <<FirstCalls[2]>>]>>
    \o [i \in 1..Len(FirstCalls) |-> ToolCallResponse(<<FirstCalls[i]>>)]
    \o [i \in 1..Len(FirstCalls) |-> ToolCallResponse(<<FirstCalls[i], SecondCall>>)]

\* texts a downstream model returns to a tool
PayloadWikipedia ==
    <<F("fence-json"), P("{"), S("answer"), P(":"), S("Paris"), P(","),
      S("wikipedia_link"), P(":"), S("w"), P(","),
      S("article_answers_question"), P(":"), S("Yes"), P("}"), F("fence")>>

PayloadRecipes ==
    <<P("["), P("{"), S("title"), P(":"), S("Soup"), P(","),
      S("description_and_advertisment"), P(":"), S("Warm"), P("}"), P("]")>>

PayloadPlaylist ==
    <<P("{"), S("name"), P(":"), S("Autumn"), P(","), S("songs"), P(":"),
      P("["), P("{"), S("name"), P(":"), S("Song"), P(","), S("artist"), P(":"), S("Band"), P("}"), P("]"),
      P("}")>>

PayloadNotJson == <<P("{"), X("'answer'"), P(":"), X("'Paris'"), P("}")>>

PayloadNull == <<K("null")>>

Env(payload, has_text, liked, imap_ok) ==
    [payload |-> payload, has_text |-> has_text, liked |-> liked, imap_ok |-> imap_ok]

\* what the outside world may answer during a chat_with_tool call
Envs ==
    {Env(payload, TRUE, <<"Song - Band">>, TRUE) :
        payload \in {PayloadWikipedia, PayloadRecipes, PayloadPlaylist, PayloadNotJson}}

-----------------------------------------------------------------------------
\* observation of a chat_with_tool call: its inputs, the history before it
\* and what chat_with_tool left behind
Observation(text, response, before, r) ==
    [text |-> text, response |-> response, before |-> before,
     raised |-> r.raised, exc |-> r.exc, handled |-> r.handled,
     result |-> r.result, ran |-> r.ran, requests |-> r.requests]

NoObservation ==
    [text |-> "", response |-> PlainResponse("", ""), before |-> <<>>,
     raised |-> FALSE, exc |-> "", handled |-> FALSE,
     result |-> <<>>, ran |-> <<>>, requests |-> <<>>]

NoToolRun == [phase |-> "none"]

NoFactory == [phase |-> "none"]

NoLoader == [phase |-> "none"]

NoClasses == [phase |-> "none"]

NoSession == [phase |-> "none"]

NoPinned == [phase |-> "none"]

\* Assistant(): the tools are created, the history is empty
Init ==
    /\ tools = AssistantTools
    /\ history = <<>>
    /\ calls = 0
    /\ pinned = NoPinned
    /\ last = NoObservation
    /\ toolrun = NoToolRun
    /\ factory = NoFactory
    /\ loader = NoLoader
    /\ classes = NoClasses
    /\ session = NoSession

\* assistant.chat_with_tool(text); an exception it raises leaves the
\* Assistant as it is at that moment, ready for the next call
ChatWithTool ==
    /\ calls < MaxCalls
    /\ \E text \in UserTexts, i \in 1..Len(Responses), env \in Envs :
          \E r \in {chat_with_tool(history, tools, text, Responses[i], env)} :
          /\ history' = r.history
          /\ tools' = r.tools
          /\ last' = Observation(text, Responses[i], history, r)
    /\ calls' = calls + 1
    /\ UNCHANGED <<toolrun, factory, loader, classes, session, pinned>>

Next == ChatWithTool

Spec == Init /\ [][Next]_vars

-----------------------------------------------------------------------------
(* One tool on its own: run_tool(kwargs) on an instance of each tool     *)
(* class, for every keyword mapping a tool call can carry.                 *)

\* the dependency bag of Assistant.__init__
AssistantBag == [model |-> MODEL_SEARCH, openai |-> "client"]

\* MailAssistant hands its logged-in IMAP connection to its tools
WithMail(inst) == [inst EXCEPT !.state.mail = "imap"]

ToolInstances ==
    {Construct(WikipediaFactCheckerTool, AssistantBag),
     Construct(RecipeSuggestTool, AssistantBag),
     Construct(SpotifyTool, AssistantBag),
     WithMail(Construct(MailSummarizerTool, AssistantBag))}

\* the keyword mappings: every argument string that is a JSON object
ToolKwargs ==
    {JsonLoads(arguments).val.d :
        arguments \in {ArgQuestion, ArgRecipe, ArgPlaylist, ArgEmpty, ArgQuestionInt,
                       ArgDays, ArgDaysShort, ArgDaysQuestionInt}}

ToolEnvs ==
    Envs \cup {Env(PayloadNull, TRUE, <<"Song - Band">>, TRUE),
               Env(PayloadPlaylist, FALSE, <<"Song - Band">>, TRUE),
               Env(PayloadPlaylist, TRUE, <<"Song - Band">>, FALSE)}

InitTool ==
    /\ tools = AssistantTools
    /\ history = <<>>
    /\ calls = 0
    /\ pinned = NoPinned
    /\ last = NoObservation
    /\ factory = NoFactory
    /\ loader = NoLoader
    /\ classes = NoClasses
    /\ session = NoSession
    /\ \E inst \in ToolInstances, kwargs \in ToolKwargs, env \in ToolEnvs :
          toolrun = [phase |-> "input", inst |-> inst, kwargs |-> kwargs, env |-> env]

\* tool.run_tool(kwargs)
RunTool ==
    /\ toolrun.phase = "input"
    /\ \E out \in {run_tool(toolrun.inst, toolrun.kwargs, toolrun.env)} :
          toolrun' = [toolrun EXCEPT !.phase = "done"] @@ [out |-> out]
    /\ UNCHANGED <<tools, history, calls, last, factory, loader, classes, session, pinned>>

NextTool == RunTool

SpecTool == InitTool /\ [][NextTool]_vars

-----------------------------------------------------------------------------
(* The factory on its own: create_tools(kwargs) for every registry and   *)
(* every dependency bag.                                                   *)

MaxRegistry == 2

ToolTypes ==
    {WikipediaFactCheckerTool, OldWikipediaFactCheckerTool, MailSummarizerTool, ModeResetter,
     MailModeSwitcher, MockToolB, MockToolC}

\* the registry lists every tool class once, in import order
Registries ==
    UNION {{reg \in [1..n -> ToolTypes] : \A i, j \in 1..n : i # j => reg[i] # reg[j]} :
              n \in 0..MaxRegistry}

\* the values a caller binds to a keyword of create_tools
BagValues(key) ==
    CASE key = "model" -> {MODEL_SEARCH, "gpt-4o"}
      [] key = "openai" -> {"client"}
      [] key = "tool_loader" -> {"loader"}
      [] OTHER -> {"extra"}

BagKeys == {"model", "openai", "tool_loader", "extra_param"}

Bags ==
    UNION {{bag \in [keys -> UNION {BagValues(key) : key \in keys}] :
               \A key \in keys : bag[key] \in BagValues(key)} :
              keys \in SUBSET BagKeys}

InitCreate ==
    /\ tools = <<>>
    /\ history = <<>>
    /\ calls = 0
    /\ pinned = NoPinned
    /\ last = NoObservation
    /\ toolrun = NoToolRun
    /\ loader = NoLoader
    /\ classes = NoClasses
    /\ session = NoSession
    /\ \E reg \in Registries, bag \in Bags :
          factory = [phase |-> "input", registry |-> reg, kwargs |-> bag]

\* create_tools(kwargs); the caller keeps the mapping it returns
CreateTools ==
    /\ factory.phase = "input"
    /\ \E out \in {create_tools(factory.registry, factory.kwargs)} :
          /\ factory' = [factory EXCEPT !.phase = "done"] @@ [out |-> out]
          /\ tools' = IF out.raised THEN tools ELSE out.tools
    /\ UNCHANGED <<history, calls, last, toolrun, loader, classes, session, pinned>>

NextCreate == CreateTools

SpecCreate == InitCreate /\ [][NextCreate]_vars

-----------------------------------------------------------------------------
(* Properties of the Assistant (specification Spec).  They are stated on   *)
(* the history and on the observation of the last chat_with_tool call.     *)

\* the first tool call the last response requested
FirstCall == last.response.message.tool_calls[1]

\* the turns the last chat_with_tool call appended
Grown == SubSeq(history, Len(last.before) + 1, Len(history))

\* the last response is a tool-call response that requests at least one call
RequestedCalls ==
    /\ calls > 0
    /\ last.response.finish_reason = "tool_calls"
    /\ last.response.message.tool_calls # <<>>

\* a call that carries a function whose argument string is a JSON object
WellFormed(call) ==
    /\ call.has_function
    /\ JsonLoads(call.function.arguments).ok
    /\ JsonLoads(call.function.arguments).val.t = "dict"

\* the turns with a tool-call descriptor / the tool turns among turns
ToolCallTurns(turns) == {i \in 1..Len(turns) : "tool_calls" \in DOMAIN turns[i]}

ToolTurns(turns) == {i \in 1..Len(turns) : turns[i].role = "tool"}

\* a tool result that reports a problem: a mapping with an answer_str
ErrorShaped(result) == "answer_str" \in DOMAIN result

\* C1, as the spec states it: in every reachable history every assistant
\* turn carrying a tool-call descriptor with id X is immediately followed by
\* exactly one tool turn whose tool_call_id is X, no user turn between them
\* (also after calls in which run_tool or the tool lookup failed).
C1_ToolCallPairing ==
    \A i \in ToolCallTurns(history) :
        /\ i + 1 <= Len(history)
        /\ history[i + 1].role = "tool"
        /\ history[i + 1].tool_call_id = history[i].tool_calls[1].id
        /\ (i + 2 <= Len(history) => history[i + 2].role # "tool")

\* C2: over every sequence of chat_with_tool calls the history never gets
\* shorter and every turn already in it stays unchanged at its index.
C2_HistoryAppendOnly ==
    [][/\ Len(history') >= Len(history)
       /\ SubSeq(history', 1, Len(history)) = history]_vars

\* a second call has extended a history that already held turns
C2_Extended ==
    /\ calls = 2
    /\ Len(last.before) >= 2
    /\ Len(history) > Len(last.before)

C4_PlainAnswer ==
    (calls > 0 /\ last.response.finish_reason # "tool_calls")
    => /\ history = last.before \o
             <<[role |-> "user", content |-> last.text],
               [role |-> "assistant", content |-> last.response.message.content]>>
       /\ last.ran = <<>>
       /\ ~last.raised

\* a plain answer with finish reason "length" came after an earlier exchange
C4_LengthAnswer ==
    /\ calls > 0
    /\ last.response.finish_reason = "length"
    /\ last.before # <<>>
    /\ Len(history) = Len(last.before) + 2

C6_InvalidCallRecovered ==
    (/\ calls > 0
     /\ last.response.finish_reason = "tool_calls"
     /\ \/ last.response.message.tool_calls = <<>>
        \/ ~FirstCall.has_function
        \/ ~JsonLoads(FirstCall.function.arguments).ok)
    => /\ ~last.raised
       /\ ErrorShaped(last.result)
       /\ ToolTurns(Grown) = {}

\* C7, as the spec states it: when the model requests a tool name that is
\* no key of the loaded tools, chat_with_tool does not raise and the outcome
\* is an error-shaped tool result.
C7_UnknownToolRecovered ==
    (/\ RequestedCalls
     /\ WellFormed(FirstCall)
     /\ FirstCall.function.name \notin DOMAIN tools)
    => /\ ~last.raised
       /\ ErrorShaped(last.result)

\* C9, as the spec states it: after any chat_with_tool(text), whichever way
\* it ends, no exception has left the call and the history holds the user
\* turn for text that the call appended.
C9_CallSurvives ==
    calls > 0
    => /\ ~last.raised
       /\ Len(history) > Len(last.before)
       /\ history[Len(last.before) + 1] = [role |-> "user", content |-> last.text]

-----------------------------------------------------------------------------
(* Properties of one tool (specification SpecTool).                        *)

\* the keyword mapping lacks the argument run_tool requires, or carries it
\* with a value of the wrong type
BadArguments(cls, kwargs) ==
    CASE cls = "WikipediaFactCheckerTool" ->
            "question" \notin DOMAIN kwargs \/ ~IsStr(kwargs["question"])
      [] cls = "RecipeSuggestTool" ->
            "description_recipe" \notin DOMAIN kwargs \/ ~IsStr(kwargs["description_recipe"])
      [] cls = "SpotifyTool" ->
            "description_playlist" \notin DOMAIN kwargs \/ ~IsStr(kwargs["description_playlist"])
      [] cls = "MailSummarizerTool" ->
            \/ "days_from_to" \notin DOMAIN kwargs
            \/ kwargs["days_from_to"].t # "list"
            \/ Len(kwargs["days_from_to"].l) # 2
      [] OTHER -> FALSE

\* C8, as the spec states it: when run_tool is called with a required
\* argument missing or of the wrong type, the tool returns an error-shaped
\* result with an answer_str and no exception leaves run_tool.
C8_BadArgumentsRecovered ==
    (toolrun.phase = "done" /\ BadArguments(toolrun.inst.cls, toolrun.kwargs))
    => /\ ~toolrun.out.raised
       /\ ErrorShaped(toolrun.out.answer)

-----------------------------------------------------------------------------
(* Properties of the factory (specification SpecCreate).                   *)

\* C10: for every dependency bag and every registered tool type, the
\* constructor is called with exactly the bag entries named by its declared
\* parameters, each with the bag's value; entries it does not declare are
\* not passed.  Every registered type is constructed, in registry order,
\* unless a declared parameter is missing from the bag.
C10_ExactSubset ==
    factory.phase = "done"
    => LET ctor_calls == factory.out.ctor_calls
           reg == factory.registry
       IN  /\ Len(ctor_calls) <= Len(reg)
           /\ \A i \in 1..Len(ctor_calls) :
                 /\ ctor_calls[i].cls = reg[i].cls
                 /\ DOMAIN ctor_calls[i].kwargs = SeqRange(reg[i].params)
                 /\ \A key \in DOMAIN ctor_calls[i].kwargs :
                       ctor_calls[i].kwargs[key] = factory.kwargs[key]
           /\ ~factory.out.raised
              => /\ Len(ctor_calls) = Len(reg)
                 /\ \A i \in 1..Len(reg) : tools[reg[i].name].init = ctor_calls[i].kwargs
           /\ factory.out.raised
              => \E key \in SeqRange(reg[Len(ctor_calls) + 1].params) : key \notin DOMAIN factory.kwargs

\* a tool that declares only model was built from a bag that also holds
\* openai and an entry no tool declares
C10_ModelOnlyTool ==
    /\ factory.phase = "done"
    /\ ~factory.out.raised
    /\ {"model", "openai", "extra_param"} \subseteq DOMAIN factory.kwargs
    /\ Len(factory.registry) = 2
    /\ "mock_tool_b" \in DOMAIN tools
    /\ tools["mock_tool_b"].init = [model |-> factory.kwargs["model"]]

\* C11: if any registered tool type declares a constructor parameter that
\* the dependency bag lacks, create_tools raises (KeyError) and the caller
\* gets no mapping at all, whatever the registry order and however many
\* tools were already constructed; otherwise it does not raise.
C11_MissingDependencyIsFatal ==
    factory.phase = "done"
    => LET reg == factory.registry
           lacking == {i \in 1..Len(reg) : ~(SeqRange(reg[i].params) \subseteq DOMAIN factory.kwargs)}
       IN  /\ factory.out.raised <=> lacking # {}
           /\ factory.out.raised
              => /\ factory.out.exc = "KeyError"
                 /\ factory.out.tools = <<>>
                 /\ tools = <<>>

\* the second registered type lacks a dependency after the first one was
\* constructed
C11_FailsAfterFirstTool ==
    /\ factory.phase = "done"
    /\ factory.out.raised
    /\ Len(factory.registry) = 2
    /\ Len(factory.out.ctor_calls) = 1
    /\ tools = <<>>

\* C12, as the spec states it: the mapping create_tools returns has one
\* entry per registered tool type, keyed by the instance's declared name, and
\* if two registered types declare the same name create_tools fails.
C12_OneEntryPerType ==
    factory.phase = "done"
    => LET reg == factory.registry
           collide == \E i, j \in 1..Len(reg) : i # j /\ reg[i].name = reg[j].name
       IN  /\ ~factory.out.raised
              => /\ Cardinality(DOMAIN factory.out.tools) = Len(reg)
                 /\ \A i \in 1..Len(reg) :
                       /\ reg[i].name \in DOMAIN factory.out.tools
                       /\ factory.out.tools[reg[i].name].cls = reg[i].cls
           /\ collide => factory.out.raised

-----------------------------------------------------------------------------
(* SpecLoader: a ToolLoader over a mapping of tool instances, and the      *)
(* load_tools calls made on it.  Objects live in a heap and mappings hold  *)
(* references to them, so that sharing and copying are told apart.         *)

\* load_tools calls explored on one ToolLoader
MaxLoads == 2

\* the heap: the tool instances a loader can be given, by reference
LoaderObjects ==
    <<Construct(WikipediaFactCheckerTool, AssistantBag),
      Construct(RecipeSuggestTool, AssistantBag),
      WithMail(Construct(MailSummarizerTool, AssistantBag)),
      Construct(ModeResetter, <<>>)>>

NameOf(ref) == LoaderObjects[ref].name

\* the mappings a loader can be given: tool name -> reference
ToolMappings ==
    {[name \in {NameOf(ref) : ref \in refs} |->
         The({ref \in refs : NameOf(ref) = name})] : refs \in SUBSET (1..Len(LoaderObjects))}

\* the group lists a caller can pass: those of MasterAssistant ("general"),
\* of MailAssistant ("email", "sub_assistant"), the factory's "all", the
\* empty list and lists that repeat or mix groups
GroupLists ==
    {<<>>, <<"general">>, <<"email", "sub_assistant">>, <<"all">>,
     <<"general", "email">>, <<"email", "email">>}

\* ToolLoader.__init__: the loader keeps the mapping it is given, which is
\* the dict object number 1; dicts counts the dict objects that exist
ToolLoader(all_available_tools, objects) ==
    [all_available_tools |-> all_available_tools, objects |-> objects, dicts |-> 1]

\* a bug load_tools could have: only the first group of the list is honoured
load_tools_first_group(self, list_of_loaded_groups) ==
    [self |-> [self EXCEPT !.dicts = @ + 1],
     id |-> self.dicts + 1,
     loaded_tools |->
        [tool_name \in {n \in DOMAIN self.all_available_tools :
                           /\ list_of_loaded_groups # <<>>
                           /\ self.objects[self.all_available_tools[n]].group
                                 = list_of_loaded_groups[1]}
            |-> self.all_available_tools[tool_name]]]

\* a bug load_tools could have: the loaded entries are moved out of the
\* loader's own mapping
load_tools_moving(self, list_of_loaded_groups) ==
    LET names == {n \in DOMAIN self.all_available_tools :
                     self.objects[self.all_available_tools[n]].group
                        \in SeqRange(list_of_loaded_groups)}
    IN  [self |-> [self EXCEPT !.dicts = @ + 1,
                               !.all_available_tools =
                                   [n \in DOMAIN self.all_available_tools \ names |->
                                       self.all_available_tools[n]]],
         id |-> self.dicts + 1,
         loaded_tools |-> [tool_name \in names |-> self.all_available_tools[tool_name]]]

\* ToolLoader.load_tools: a fresh dict that holds, under the same names, the
\* references of the tools whose group is in the list; the loader and the
\* instances are left as they are
load_tools(self, list_of_loaded_groups) ==
    [self |-> [self EXCEPT !.dicts = @ + 1],
     id |-> self.dicts + 1,
     loaded_tools |->
        [tool_name \in {n \in DOMAIN self.all_available_tools :
                           self.objects[self.all_available_tools[n]].group
                              \in SeqRange(list_of_loaded_groups)}
            |-> self.all_available_tools[tool_name]]]

InitLoader ==
    /\ tools = <<>>
    /\ history = <<>>
    /\ calls = 0
    /\ pinned = NoPinned
    /\ last = NoObservation
    /\ toolrun = NoToolRun
    /\ factory = NoFactory
    /\ classes = NoClasses
    /\ session = NoSession
    /\ \E m \in ToolMappings :
          loader = [phase |-> "ready",
                    given |-> ToolLoader(m, LoaderObjects),
                    self |-> ToolLoader(m, LoaderObjects),
                    returned |-> <<>>]

\* loader.load_tools(list_of_loaded_groups); the caller keeps what it returns
LoadTools ==
    /\ loader.phase = "ready"
    /\ Len(loader.returned) < MaxLoads
    /\ \E groups \in GroupLists :
          \E out \in {load_tools(loader.self, groups)} :
             loader' = [loader EXCEPT
                           !.self = out.self,
                           !.returned = Append(@, [groups |-> groups, id |-> out.id,
                                                   loaded_tools |-> out.loaded_tools])]
    /\ UNCHANGED <<tools, history, calls, last, toolrun, factory, classes, session, pinned>>

NextLoader == LoadTools

SpecLoader == InitLoader /\ [][NextLoader]_vars

\* C13: load_tools returns exactly the entries of the loader's mapping whose
\* tool's group is an element of the list passed, under the same names; with
\* an empty list, or a list that names no group of any tool, it returns the
\* empty mapping.
C13_ExactlyTheGroups ==
    loader.phase = "ready"
    => \A k \in 1..Len(loader.returned) :
          LET call == loader.returned[k]
              all == loader.given.all_available_tools
              groupOf(n) == loader.given.objects[all[n]].group
              listed(g) == \E i \in 1..Len(call.groups) : call.groups[i] = g
          IN  /\ DOMAIN call.loaded_tools = {n \in DOMAIN all : listed(groupOf(n))}
              /\ \A n \in DOMAIN call.loaded_tools : call.loaded_tools[n] = all[n]
              /\ (\A n \in DOMAIN all : ~listed(groupOf(n))) => call.loaded_tools = <<>>

\* a loader of four tools asked for the mail assistant's two groups returns
\* the two tools of these groups, and asked for no group returns nothing
C13_MailGroupsLoaded ==
    /\ loader.phase = "ready"
    /\ Len(loader.returned) = 2
    /\ Cardinality(DOMAIN loader.given.all_available_tools) = 4
    /\ loader.returned[1].groups = <<"email", "sub_assistant">>
    /\ DOMAIN loader.returned[1].loaded_tools = {"summarize_emails", "switch_back_to_master_mode"}
    /\ loader.returned[2].groups = <<>>
    /\ loader.returned[2].loaded_tools = <<>>

\* C14: load_tools is a pure filter: the loader's mapping and the groups of
\* the tools are as they were, the mapping returned is a new dict whose
\* values are the loader's own instances (so two loads that overlap share
\* them), and a load repeated with the same list returns an equal mapping.
C14_PureFilter ==
    loader.phase = "ready"
    => /\ loader.self.all_available_tools = loader.given.all_available_tools
       /\ loader.self.objects = loader.given.objects
       /\ \A k \in 1..Len(loader.returned) :
             LET call == loader.returned[k]
             IN  /\ call.id # 1
                 /\ \A j \in 1..Len(loader.returned) :
                       /\ j # k => loader.returned[j].id # call.id
                       /\ loader.returned[j].groups = call.groups
                          => loader.returned[j].loaded_tools = call.loaded_tools
                       /\ \A n \in DOMAIN call.loaded_tools \cap DOMAIN loader.returned[j].loaded_tools :
                             loader.returned[j].loaded_tools[n] = call.loaded_tools[n]
                 /\ \A n \in DOMAIN call.loaded_tools :
                       /\ n \in DOMAIN loader.self.all_available_tools
                       /\ call.loaded_tools[n] = loader.self.all_available_tools[n]

\* the same non-empty load made twice
C14_LoadedTwice ==
    /\ loader.phase = "ready"
    /\ Len(loader.returned) = 2
    /\ loader.returned[1].groups = loader.returned[2].groups
    /\ loader.returned[1].loaded_tools # <<>>
    /\ loader.returned[1].loaded_tools = loader.returned[2].loaded_tools

-----------------------------------------------------------------------------
(* SpecRegistry: the class statements a program executes, and the          *)
(* module-level registry that Tool.__init_subclass__ fills.                *)

\* class statements explored
MaxClasses == 3

ClassNames == {"WikipediaFactCheckerTool", "MockToolB"}

\* the base a class statement names: object, Tool itself, or a class
\* defined before it (by its position in the definition order)
ObjectBase == -1

ToolBase == 0

\* issubclass(cls, Tool) for the class defined at position i
RECURSIVE IsToolSubclass(_, _)
IsToolSubclass(defined, i) ==
    IF i = ToolBase THEN TRUE
    ELSE IF i = ObjectBase THEN FALSE
    ELSE IsToolSubclass(defined, defined[i].base)

\* a bug the registration could have: a class whose name is registered is
\* not registered again
init_subclass_once(registry, cls) ==
    IF \E k \in 1..Len(registry) : registry[k].name = cls.name
    THEN registry
    ELSE Append(registry, cls)

\* Tool.__init_subclass__: registry.append(cls)
init_subclass(registry, cls) == Append(registry, cls)

\* the class statement: Python calls the __init_subclass__ the new class
\* inherits, which is Tool's for every direct or indirect subclass of Tool
\* and object's (which does nothing) for any other class
class_statement(defined, registry, name, base) ==
    LET cls == [id |-> Len(defined) + 1, name |-> name, base |-> base]
    IN  [defined |-> Append(defined, cls),
         registry |-> IF IsToolSubclass(defined, base)
                      THEN init_subclass(registry, cls)
                      ELSE registry]

\* tool_base is imported: Tool is defined and the registry is the empty list
InitRegistry ==
    /\ tools = <<>>
    /\ history = <<>>
    /\ calls = 0
    /\ pinned = NoPinned
    /\ last = NoObservation
    /\ toolrun = NoToolRun
    /\ factory = NoFactory
    /\ loader = NoLoader
    /\ session = NoSession
    /\ classes = [phase |-> "ready", defined |-> <<>>, registry |-> <<>>]

\* class name(base): ...
DefineClass ==
    /\ classes.phase = "ready"
    /\ Len(classes.defined) < MaxClasses
    /\ \E name \in ClassNames, base \in {ObjectBase, ToolBase} \cup (1..Len(classes.defined)) :
          \E r \in {class_statement(classes.defined, classes.registry, name, base)} :
             classes' = [classes EXCEPT !.defined = r.defined, !.registry = r.registry]
    /\ UNCHANGED <<tools, history, calls, last, toolrun, factory, loader, session, pinned>>

NextRegistry == DefineClass

SpecRegistry == InitRegistry /\ [][NextRegistry]_vars

\* C15: the registry holds every class defined as a (direct or indirect)
\* subclass of Tool exactly once, in the order of definition, and never the
\* base Tool itself; it only grows at its end; defining the class is all it
\* takes to be registered.
C15_RegistryIsDefinitionOrder ==
    /\ [](LET defined == classes.defined
              registry == classes.registry
              subclasses == {i \in 1..Len(defined) : IsToolSubclass(defined, i)}
          IN  /\ Len(registry) = Cardinality(subclasses)
              /\ \A i \in subclasses : \E k \in 1..Len(registry) : registry[k] = defined[i]
              /\ \A k \in 1..Len(registry) :
                    /\ registry[k].id \in subclasses
                    /\ registry[k].id # ToolBase
                    /\ \A j \in 1..(k - 1) : registry[j].id < registry[k].id)
    /\ [][/\ Len(classes.registry') >= Len(classes.registry)
          /\ SubSeq(classes.registry', 1, Len(classes.registry)) = classes.registry]_vars

\* three classes are defined: a tool, a class that is no tool, and a tool of
\* the first one's name that derives from the first; the registry holds the
\* first and the third
C15_TwoToolsRegistered ==
    /\ classes.phase = "ready"
    /\ Len(classes.defined) = 3
    /\ classes.defined[1].base = ToolBase
    /\ classes.defined[2].base = ObjectBase
    /\ classes.defined[3].base = 1
    /\ classes.defined[3].name = classes.defined[1].name
    /\ Len(classes.registry) = 2
    /\ classes.registry[1].id = 1
    /\ classes.registry[2].id = 3

-----------------------------------------------------------------------------
(* SpecSession: st.session_state with its assistant pointers, the mail     *)
(* assistant the switch-in tool constructs and caches, and the submits the *)
(* GUI routes to the active assistant.  Assistants live in a heap and the  *)
(* session holds references (positions in the heap) to them; the master    *)
(* assistant is object 1.                                                  *)

\* what the mail server answers when a MailAssistant is constructed
MailEnvs == {"ok", "no_connection", "login_rejected"}

\* a dependency bag that holds every constructor parameter of the tools
SessionBag == [model |-> MODEL_SEARCH, openai |-> "client", tool_loader |-> "tool_loader"]

\* the tools of the session: those registered when the tools package is
\* imported, one instance each, shared by the assistants through the loader
SessionTools ==
    create_tools(<<WikipediaFactCheckerTool, MailModeSwitcher, MailSummarizerTool, ModeResetter>>,
                 SessionBag).tools

\* MasterAssistant.__init__: the master loads the group "general"
MasterAssistant ==
    [cls |-> "MasterAssistant", list_of_loaded_groups |-> <<"general">>, mail |-> "none"]

\* BaseAssistant.__init__: the assistant's tools are what the shared loader
\* returns for its groups
AssistantToolNames(all_tools, assistant) ==
    DOMAIN load_tools(ToolLoader([n \in DOMAIN all_tools |-> n], all_tools),
                      assistant.list_of_loaded_groups).loaded_tools

\* Tool.update_attributes(mail=...): the attribute is set on the instance
update_attributes(tool, mail) == [tool EXCEPT !.state.mail = mail]

\* MailAssistant.__init__: load the groups, connect, log in, hand the
\* connection to summarize_emails; a failure of IMAP4_SSL or of login leaves
\* the constructor as an exception
MailAssistant(all_tools, env) ==
    IF env = "no_connection"
    THEN [raised |-> TRUE, exc |-> "OSError", all_tools |-> all_tools, self |-> MasterAssistant]
    ELSE IF env = "login_rejected"
    THEN [raised |-> TRUE, exc |-> "imaplib.IMAP4.error", all_tools |-> all_tools, self |-> MasterAssistant]
    ELSE [raised |-> FALSE, exc |-> "",
          all_tools |-> [all_tools EXCEPT !["summarize_emails"] = update_attributes(@, "imap")],
          self |-> [cls |-> "MailAssistant",
                    list_of_loaded_groups |-> <<"email", "sub_assistant">>,
                    mail |-> "logged_in"]]

\* MailAssistant.close: self.mail.logout(); IMAP4.logout on a connection
\* that was logged out before sends on the closed socket and raises abort
close(assistant) ==
    IF assistant.mail = "logged_in"
    THEN [raised |-> FALSE, exc |-> "", self |-> [assistant EXCEPT !.mail = "logged_out"]]
    ELSE [raised |-> TRUE, exc |-> "imaplib.IMAP4.abort", self |-> assistant]

\* a bug the switch-in tool could have: a MailAssistant is constructed at
\* every switch
NeedsMailAssistant_always(state) == TRUE

\* "mail_assistant" not in st.session_state
NeedsMailAssistant(state) == "mail_assistant" \notin DOMAIN state

\* the outcome of a tool run in a session
SessionOutcome(raised, exc, result, state, assistants, all_tools) ==
    [raised |-> raised, exc |-> exc, result |-> result,
     state |-> state, assistants |-> assistants, all_tools |-> all_tools]

\* MailModeSwitcher.run_tool
mail_mode_switcher_run_tool(state, assistants, all_tools, env) ==
    The({IF made.raised
         THEN SessionOutcome(TRUE, made.exc, <<>>, state, assistants, all_tools)
         ELSE The({SessionOutcome(FALSE, "",
                       [answer_str |-> <<Lit("Switched to mail mode. MailAssistant is now active.")>>],
                       DictSet(cached.state, "chat_assistant", cached.state["mail_assistant"]),
                       cached.assistants, made.all_tools)
                   : cached \in {IF made.constructed
                                 THEN [state |-> DictSet(state, "mail_assistant", Len(assistants) + 1),
                                       assistants |-> Append(assistants, made.self)]
                                 ELSE [state |-> state, assistants |-> assistants]}})
         : made \in {IF NeedsMailAssistant(state)
                     THEN MailAssistant(all_tools, env) @@ [constructed |-> TRUE]
                     ELSE [raised |-> FALSE, exc |-> "", all_tools |-> all_tools,
                           self |-> MasterAssistant, constructed |-> FALSE]}})

\* str(v) of a value json.loads produced: a string is itself
py_str(v) == IF v.t = "str" THEN <<Lit(v.s)>> ELSE <<Val(v)>>

\* ModeResetter.run_tool
mode_resetter_run_tool(state, assistants, all_tools, kwargs) ==
    The({IF closed.raised
         THEN SessionOutcome(TRUE, closed.exc, <<>>, state, assistants, all_tools)
         ELSE SessionOutcome(FALSE, "",
                  [answer_str |-> <<Lit("Switched back to standard assistant.")>>,
                   is_mode_switcher |-> TRUE,
                   switches_to |-> "master_assistant",
                   carry_over_tool_calls |-> TRUE,
                   summary_previous_tool |->
                       py_str(IF "summary_previous_tool" \in DOMAIN kwargs
                              THEN kwargs["summary_previous_tool"]
                              ELSE JStr(""))],
                  DictSet(state, "chat_assistant", state["master_assistant"]),
                  [assistants EXCEPT ![state["chat_assistant"]] = closed.self],
                  all_tools)
         : closed \in {close(assistants[state["chat_assistant"]])}})

\* the arguments a model passes to the switch-back tool
ArgSummary == <<P("{"), S("summary_previous_tool"), P(":"), S("two mails summarized"), P("}")>>

ResetKwargs == {JsonLoads(arguments).val.d : arguments \in {ArgSummary, ArgEmpty}}

\* the calls of the tools that switch nothing
OrdinaryCalls ==
    {[name |-> "check_fact_wikipedia", kwargs |-> JsonLoads(ArgQuestion).val.d,
      env |-> Env(PayloadWikipedia, TRUE, <<>>, TRUE)],
     [name |-> "check_fact_wikipedia", kwargs |-> JsonLoads(ArgQuestion).val.d,
      env |-> Env(PayloadNotJson, TRUE, <<>>, TRUE)],
     [name |-> "summarize_emails", kwargs |-> JsonLoads(ArgDays).val.d,
      env |-> Env(PayloadNull, TRUE, <<>>, TRUE)]}

\* what the session remembers of a submit: the assistant it was routed to,
\* the tool that ran in it (if any), what the mail server answered to a
\* switch-in, and the session as it was before
SessionObservation(tool, kwargs, mail_env, r, sess) ==
    [tool |-> tool, kwargs |-> kwargs, mail_env |-> mail_env, routed_to |-> sess.state["chat_assistant"],
     raised |-> r.raised, exc |-> r.exc, result |-> r.result,
     before |-> [state |-> sess.state, assistants |-> sess.assistants],
     prev |-> [tool |-> sess.last.tool, raised |-> sess.last.raised]]

NoSessionObservation ==
    [tool |-> "none", kwargs |-> <<>>, mail_env |-> "", routed_to |-> 0, raised |-> FALSE, exc |-> "", result |-> <<>>,
     before |-> [state |-> <<>>, assistants |-> <<>>],
     prev |-> [tool |-> "none", raised |-> FALSE]]

\* the active assistant and the names of the tools it has loaded
Active == session.assistants[session.state["chat_assistant"]]

ActiveToolNames == AssistantToolNames(tools, Active)

\* initialize_session_state: the MasterAssistant is the active assistant and
\* the master assistant; no mail assistant is cached
InitSession ==
    /\ tools = SessionTools
    /\ history = <<>>
    /\ calls = 0
    /\ pinned = NoPinned
    /\ last = NoObservation
    /\ toolrun = NoToolRun
    /\ factory = NoFactory
    /\ loader = NoLoader
    /\ classes = NoClasses
    /\ session = [phase |-> "ready",
                  state |-> [chat_assistant |-> 1, master_assistant |-> 1],
                  assistants |-> <<MasterAssistant>>,
                  last |-> NoSessionObservation]

\* the effect of a tool run on the session; an exception leaves the session
\* as the tool left it
Ran(tool, kwargs, mail_env, r) ==
    /\ session' = [session EXCEPT !.state = r.state, !.assistants = r.assistants,
                                  !.last = SessionObservation(tool, kwargs, mail_env, r, session)]
    /\ tools' = r.all_tools

\* a submit in which the model asks the active assistant for
\* switch_to_mail_mode
SwitchToMailMode ==
    /\ session.phase = "ready"
    /\ "switch_to_mail_mode" \in ActiveToolNames
    /\ \E env \in MailEnvs :
          \E r \in {mail_mode_switcher_run_tool(session.state, session.assistants, tools, env)} :
             Ran("switch_to_mail_mode", <<>>, env, r)
    /\ UNCHANGED <<history, calls, last, toolrun, factory, loader, classes, pinned>>

\* a submit in which the model asks the active assistant for
\* switch_back_to_master_mode
SwitchBackToMasterMode ==
    /\ session.phase = "ready"
    /\ "switch_back_to_master_mode" \in ActiveToolNames
    /\ \E kwargs \in ResetKwargs :
          \E r \in {mode_resetter_run_tool(session.state, session.assistants, tools, kwargs)} :
             Ran("switch_back_to_master_mode", kwargs, "", r)
    /\ UNCHANGED <<history, calls, last, toolrun, factory, loader, classes, pinned>>

\* a submit in which the model asks the active assistant for one of its
\* other tools; a mail tool of an assistant whose connection is logged out
\* fails in its first IMAP command
OrdinaryTool ==
    /\ session.phase = "ready"
    /\ \E call \in OrdinaryCalls :
          /\ call.name \in ActiveToolNames
          /\ \E out \in {IF call.name = "summarize_emails" /\ Active.mail # "logged_in"
                         THEN Raise("imaplib.IMAP4.error", tools[call.name])
                         ELSE run_tool(tools[call.name], call.kwargs, call.env)} :
                Ran(call.name, call.kwargs, "",
                    SessionOutcome(out.raised, out.exc, out.answer, session.state, session.assistants,
                                   [tools EXCEPT ![call.name] = out.inst]))
    /\ UNCHANGED <<history, calls, last, toolrun, factory, loader, classes, pinned>>

\* a submit the model answers without a tool
PlainSubmit ==
    /\ session.phase = "ready"
    /\ Ran("none", <<>>, "", SessionOutcome(FALSE, "", <<>>, session.state, session.assistants, tools))
    /\ UNCHANGED <<history, calls, last, toolrun, factory, loader, classes, pinned>>

NextSession == SwitchToMailMode \/ SwitchBackToMasterMode \/ OrdinaryTool \/ PlainSubmit

SpecSession == InitSession /\ [][NextSession]_vars

\* the MailAssistant objects constructed so far
MailAssistants(assistants) ==
    {i \in 1..Len(assistants) : assistants[i].cls = "MailAssistant"}

\* C16: switch_to_mail_mode, the mail server accepting the credentials,
\* constructs a MailAssistant only if none is cached; when it returns,
\* chat_assistant is that (cached) MailAssistant; the next submit is routed
\* to it; a session never constructs more than one MailAssistant.
C16_SwitchInReusesCache ==
    session.phase = "ready"
    => /\ Cardinality(MailAssistants(session.assistants)) <= 1
       /\ (session.last.tool = "switch_to_mail_mode" /\ ~session.last.raised)
          => /\ "mail_assistant" \in DOMAIN session.state
             /\ session.state["chat_assistant"] = session.state["mail_assistant"]
             /\ session.state["mail_assistant"] \in MailAssistants(session.assistants)
             /\ IF "mail_assistant" \in DOMAIN session.last.before.state
                THEN /\ session.state["mail_assistant"] = session.last.before.state["mail_assistant"]
                     /\ Len(session.assistants) = Len(session.last.before.assistants)
                ELSE /\ Len(session.assistants) = Len(session.last.before.assistants) + 1
                     /\ session.state["mail_assistant"] = Len(session.assistants)
       /\ (session.last.prev.tool = "switch_to_mail_mode" /\ ~session.last.prev.raised)
          => /\ session.last.routed_to = session.last.before.state["mail_assistant"]
             /\ session.last.routed_to \in MailAssistants(session.last.before.assistants)

\* the second switch into mail mode of a session: the cached MailAssistant
\* becomes the active assistant again and none is constructed
C16_SecondSwitchIn ==
    /\ session.phase = "ready"
    /\ session.last.tool = "switch_to_mail_mode"
    /\ ~session.last.raised
    /\ "mail_assistant" \in DOMAIN session.last.before.state
    /\ session.last.before.state["chat_assistant"] = session.last.before.state["master_assistant"]
    /\ session.state["chat_assistant"] = session.state["mail_assistant"]
    /\ Len(session.assistants) = 2

\* C17, as the spec states it: when the MailAssistant cannot be constructed,
\* the active-assistant and master-assistant pointers are as before, no mail
\* assistant is cached, and the failure is recovered: the tool run does not
\* raise and the user gets an answer.
C17_ConstructionFailureRecovered ==
    (/\ session.phase = "ready"
     /\ session.last.tool = "switch_to_mail_mode"
     /\ "mail_assistant" \notin DOMAIN session.last.before.state
     /\ session.last.mail_env # "ok")
    => /\ session.state["chat_assistant"] = session.last.before.state["chat_assistant"]
       /\ session.state["master_assistant"] = session.last.before.state["master_assistant"]
       /\ "mail_assistant" \notin DOMAIN session.state
       /\ ~session.last.raised
       /\ ErrorShaped(session.last.result)

\* C18, as the spec states it: after switch_back_to_master_mode has run, the
\* active assistant is the master assistant, the master pointer is the one
\* the session started with, and the result carries summary_previous_tool:
\* the summary supplied, or the empty string when none was supplied.
C18_SwitchBackToMaster ==
    (session.phase = "ready" /\ session.last.tool = "switch_back_to_master_mode")
    => /\ session.state["chat_assistant"] = session.state["master_assistant"]
       /\ session.state["master_assistant"] = 1
       /\ session.assistants[1].cls = "MasterAssistant"
       /\ ~session.last.raised
       /\ "summary_previous_tool" \in DOMAIN session.last.result
       /\ session.last.result["summary_previous_tool"]
             = IF "summary_previous_tool" \in DOMAIN session.last.kwargs
               THEN <<Lit(session.last.kwargs["summary_previous_tool"].s)>>
               ELSE <<Lit("")>>

\* C19, as the spec states it: the result of a tool run carries
\* is_mode_switcher = true exactly when the run changed the active
\* assistant: for the switch into mail mode and the switch back, and for no
\* other tool.
C19_FlagIffSwitched ==
    (session.phase = "ready" /\ session.last.tool # "none" /\ ~session.last.raised)
    => ((/\ "is_mode_switcher" \in DOMAIN session.last.result
         /\ session.last.result["is_mode_switcher"] = TRUE)
        <=> session.state["chat_assistant"] # session.last.before.state["chat_assistant"])

-----------------------------------------------------------------------------
(* Properties of the tools' own parsing (specification SpecTool).          *)

\* C20, as the spec states it: when the text the downstream model returns to
\* the recipe, wikipedia or spotify tool is no valid JSON (also with its code
\* fences removed), run_tool raises nothing and returns an error-shaped
\* result whose answer_str contains that raw text.
C20_InvalidPayloadRecovered ==
    (/\ toolrun.phase = "done"
     /\ toolrun.inst.cls \in {"RecipeSuggestTool", "WikipediaFactCheckerTool", "SpotifyTool"}
     /\ ~BadArguments(toolrun.inst.cls, toolrun.kwargs)
     /\ toolrun.env.has_text
     /\ ~JsonLoads(clean_up_str(toolrun.env.payload)).ok)
    => /\ ~toolrun.out.raised
       /\ ErrorShaped(toolrun.out.answer)
       /\ \E i \in 1..Len(toolrun.out.answer.answer_str) :
             toolrun.out.answer.answer_str[i] = Raw(toolrun.env.payload)

-----------------------------------------------------------------------------
(* SpecPinned: the pinned object of the session, the tools' pin and        *)
(* pinned-object renderers, and chats of the assistant in between.  A      *)
(* Python dict an answer consists of is a function from its keys.          *)

\* chat_with_tool invocations explored around the pinned object
MaxPinnedChats == 2

\* st.session_state["pinned_object"]: None, or the dict add_tabbed_object
\* stores
PinnedNone == [none |-> TRUE, function_name |-> "", AnswerDict |-> <<>>]

PinnedObject(function_name, answer) ==
    [none |-> FALSE, function_name |-> function_name, AnswerDict |-> answer]

\* a bug the pin could have: an object that is pinned is kept
add_tabbed_object_keep(self, answer, pinned_object) ==
    IF pinned_object.none THEN PinnedObject(self.name, answer) ELSE pinned_object

\* Tool.add_tabbed_object: the new value of st.session_state["pinned_object"]
add_tabbed_object(self, answer, pinned_object) == PinnedObject(self.name, answer)

\* what a renderer leaves on the screen
Shown(raised, exc, shown) == [raised |-> raised, exc |-> exc, shown |-> shown]

\* a bug the default renderer could have: answer["answer_str"] is read
\* without the check
Tool_render_pinned_object_unchecked(answer) ==
    IF "answer_str" \notin DOMAIN answer
    THEN Shown(TRUE, "KeyError", "")
    ELSE Shown(FALSE, "", "markdown")

\* Tool.render_pinned_object
Tool_render_pinned_object(answer) ==
    IF "answer_str" \notin DOMAIN answer
    THEN Shown(FALSE, "", "st.error")
    ELSE Shown(FALSE, "", "markdown")

\* RecipeSuggestTool.is_recipe, of a dict
is_recipe(obj) ==
    {"title", "link", "ingredients", "instructions", "description_and_advertisment"} \subseteq DOMAIN obj

\* RecipeSuggestTool.render_pinned_object
Recipe_render_pinned_object(answer) ==
    IF ~is_recipe(answer)
    THEN Shown(FALSE, "", "st.error")
    ELSE Shown(FALSE, "", "recipe")

\* Assistant.render_pinned_object: the renderer of the tool that pinned
render_pinned_object(tls, pinned_object) ==
    IF pinned_object.function_name \notin DOMAIN tls
    THEN Shown(TRUE, "KeyError", "")
    ELSE IF tls[pinned_object.function_name].cls = "RecipeSuggestTool"
    THEN Recipe_render_pinned_object(pinned_object.AnswerDict)
    ELSE Tool_render_pinned_object(pinned_object.AnswerDict)

\* the dicts a pin can be given: a full recipe, a recipe as the model
\* returns it in PayloadRecipes, an answer with its answer_str, and a dict
\* without one
FullRecipe ==
    [title |-> JStr("Soup"), link |-> JStr("w"), ingredients |-> JList(<<JStr("water")>>),
     instructions |-> JList(<<JStr("boil")>>), description_and_advertisment |-> JStr("Warm")]

PinAnswers ==
    {FullRecipe,
     JsonLoads(PayloadRecipes).val.l[1].d,
     [answer_str |-> <<Lit("No result returned from model.")>>],
     [list_of_mails |-> JList(<<>>)]}

\* the model's responses explored around the pinned object
PinnedResponses ==
    {PlainResponse("stop", "4"),
     ToolCallResponse(<<Call("call_3", "find_recipe_online", ArgRecipe)>>)}

NotRendered == [slot |-> PinnedNone, shown |-> Shown(FALSE, "", "")]

NotPinned == [made |-> FALSE, name |-> "", answer |-> <<>>, before |-> PinnedNone]

\* initialize_session_state: nothing is pinned
InitPinned ==
    /\ tools = AssistantTools
    /\ history = <<>>
    /\ calls = 0
    /\ last = NoObservation
    /\ toolrun = NoToolRun
    /\ factory = NoFactory
    /\ loader = NoLoader
    /\ classes = NoClasses
    /\ session = NoSession
    /\ pinned = [phase |-> "ready", slot |-> PinnedNone, pin |-> NotPinned, rendered |-> NotRendered]

\* a submit: assistant.chat_with_tool(text)
PinnedChat ==
    /\ pinned.phase = "ready"
    /\ calls < MaxPinnedChats
    /\ \E response \in PinnedResponses :
          \E r \in {chat_with_tool(history, tools, "hello", response,
                                   Env(PayloadRecipes, TRUE, <<>>, TRUE))} :
             /\ history' = r.history
             /\ tools' = r.tools
             /\ last' = Observation("hello", response, history, r)
    /\ calls' = calls + 1
    /\ UNCHANGED <<toolrun, factory, loader, classes, session, pinned>>

\* tool.add_tabbed_object(answer)
AddTabbedObject ==
    /\ pinned.phase = "ready"
    /\ \E name \in DOMAIN tools, answer \in PinAnswers :
          pinned' = [pinned EXCEPT
                        !.slot = add_tabbed_object(tools[name], answer, pinned.slot),
                        !.pin = [made |-> TRUE, name |-> tools[name].name, answer |-> answer,
                                 before |-> pinned.slot]]
    /\ UNCHANGED <<tools, history, calls, last, toolrun, factory, loader, classes, session>>

\* the pinned column is drawn: assistant.render_pinned_object(pinned_object)
RenderPinnedObject ==
    /\ pinned.phase = "ready"
    /\ ~pinned.slot.none
    /\ pinned' = [pinned EXCEPT
                     !.rendered = [slot |-> pinned.slot,
                                   shown |-> render_pinned_object(tools, pinned.slot)]]
    /\ UNCHANGED <<tools, history, calls, last, toolrun, factory, loader, classes, session>>

NextPinned == PinnedChat \/ AddTabbedObject \/ RenderPinnedObject

SpecPinned == InitPinned /\ [][NextPinned]_vars

\* the pinned object lacks what the tool that pinned it expects
Malformed(tls, pinned_object) ==
    IF tls[pinned_object.function_name].cls = "RecipeSuggestTool"
    THEN ~({"title", "link", "ingredients", "instructions", "description_and_advertisment"}
              \subseteq DOMAIN pinned_object.AnswerDict)
    ELSE "answer_str" \notin DOMAIN pinned_object.AnswerDict

\* C21: rendering a pinned object that lacks the fields its tool expects (no
\* answer_str for a tool with the default renderer, not a full recipe for
\* find_recipe_online) shows an error and raises nothing, and the rendering
\* leaves the pinned slot and the history as they are.
C21_MalformedPinIsDisplayError ==
    /\ [](pinned.phase = "ready" /\ ~pinned.rendered.slot.none
          /\ Malformed(tools, pinned.rendered.slot)
          => /\ ~pinned.rendered.shown.raised
             /\ pinned.rendered.shown.shown = "st.error")
    /\ [][pinned'.rendered # pinned.rendered
          => /\ pinned'.slot = pinned.slot
             /\ history' = history]_vars

\* a dict without answer_str pinned by the wikipedia tool was rendered after
\* a chat, and nothing was raised
C21_DefaultToolMalformed ==
    /\ pinned.phase = "ready"
    /\ ~pinned.rendered.slot.none
    /\ pinned.rendered.slot.function_name = "check_fact_wikipedia"
    /\ "answer_str" \notin DOMAIN pinned.rendered.slot.AnswerDict
    /\ pinned.rendered.shown = Shown(FALSE, "", "st.error")
    /\ pinned.slot = pinned.rendered.slot
    /\ Len(history) > 0

\* C22: the pinned object is one slot outside the history: add_tabbed_object
\* sets it to the pair of the pinning tool's declared name and the answer,
\* whatever was pinned before, and changes no turn of the history;
\* chat_with_tool never changes the slot.
C22_SingleSlot ==
    /\ [](pinned.phase = "ready" /\ pinned.pin.made
          => pinned.slot = [none |-> FALSE, function_name |-> pinned.pin.name,
                            AnswerDict |-> pinned.pin.answer])
    /\ [][/\ pinned'.pin # pinned.pin => history' = history
          /\ history' # history => pinned'.slot = pinned.slot]_vars

\* a second pin replaced a different object, with turns in the history
C22_PinReplaced ==
    /\ pinned.phase = "ready"
    /\ pinned.pin.made
    /\ ~pinned.pin.before.none
    /\ pinned.pin.before # pinned.slot
    /\ pinned.slot.function_name = "find_recipe_online"
    /\ pinned.slot.AnswerDict = FullRecipe
    /\ Len(history) > 0

-----------------------------------------------------------------------------
(* Further properties of the Assistant (specification Spec).               *)

\* C23: on every chat_with_tool call the model is invoked with the system
\* message first, then every turn of the history in history order, the user
\* turn just appended last, and with exactly one descriptor for each tool
\* the assistant has loaded.
C23_RequestContents ==
    calls > 0
    => \A k \in 1..Len(last.requests) :
          LET request == last.requests[k]
          IN  /\ Len(request.messages) = Len(last.before) + 2
              /\ request.messages[1] = [role |-> "system", content |-> "You are an AI assistant."]
              /\ \A i \in 1..Len(last.before) : request.messages[i + 1] = last.before[i]
              /\ request.messages[Len(request.messages)] = [role |-> "user", content |-> last.text]
              /\ Len(request.tools) = Cardinality(DOMAIN tools)
              /\ \A name \in DOMAIN tools :
                    Cardinality({i \in 1..Len(request.tools) :
                                    /\ request.tools[i].type = "function"
                                    /\ request.tools[i].function.name = name}) = 1

\* the second call of an assistant whose history holds a tool call and its
\* result: the request carries the four turns and the three descriptors
C23_SecondRequest ==
    /\ calls = 2
    /\ Len(last.before) = 3
    /\ last.before[3].role = "tool"
    /\ Len(last.requests) = 1
    /\ Len(last.requests[1].messages) = 5
    /\ Len(last.requests[1].tools) = 3

\* C24: in every reachable history each assistant turn has one of two
\* shapes: a tool-call turn with empty content and one call descriptor (id,
\* tool name, raw argument string), or a text turn with the model's content
\* and no tool_calls; each tool turn has empty content, a call id, a tool
\* name and the tool's result mapping.
C24_TurnShapes ==
    /\ \A i \in 1..Len(history) :
          LET turn == history[i]
          IN  /\ turn.role = "assistant"
                 => \/ /\ DOMAIN turn = {"role", "content", "tool_calls"}
                       /\ turn.content = ""
                       /\ Len(turn.tool_calls) = 1
                       /\ DOMAIN turn.tool_calls[1] = {"id", "function", "type"}
                       /\ DOMAIN turn.tool_calls[1].function = {"name", "arguments"}
                    \/ DOMAIN turn = {"role", "content"}
              /\ turn.role = "tool"
                 => /\ DOMAIN turn = {"role", "content", "tool_answer", "tool_name", "tool_call_id"}
                    /\ turn.content = ""
                    /\ "answer_str" \in DOMAIN turn.tool_answer
    /\ (calls > 0 /\ ~last.raised /\ ~last.handled)
       => history[Len(history)] = [role |-> "assistant", content |-> last.response.message.content]
    /\ (calls > 0 /\ last.handled /\ last.ran # <<>>)
       => LET turn == history[last.ran[1].hlen]
          IN  /\ turn.tool_calls[1].id = FirstCall.id
              /\ turn.tool_calls[1].function.name = FirstCall.function.name
              /\ turn.tool_calls[1].function.arguments = FirstCall.function.arguments

\* a history that holds both shapes: a tool-call turn with its tool turn from
\* the first call, and a text turn from the second
C24_BothShapes ==
    /\ calls = 2
    /\ Len(history) = 5
    /\ "tool_calls" \in DOMAIN history[2]
    /\ history[3].role = "tool"
    /\ history[5].role = "assistant"
    /\ "tool_calls" \notin DOMAIN history[5]

\* C26: each chat_with_tool call makes exactly one model call and runs at
\* most one tool: after a tool ran, the model is not called again within the
\* same call.
C26_OneModelCall ==
    calls > 0
    => /\ Len(last.requests) = 1
       /\ Len(last.ran) <= 1

\* a call in which a tool ran and returned, after the one model call
C26_ToolRanOnce ==
    /\ calls > 0
    /\ ~last.raised
    /\ Len(last.ran) = 1
    /\ Len(last.requests) = 1
    /\ history[Len(history)].role = "tool"

\* C27, as the spec states it: after every chat_with_tool call that returns
\* normally the last turn of the history is an assistant text turn or a tool
\* turn, never the user turn, and no two user turns are adjacent.
C27_UserTurnAnswered ==
    /\ (calls > 0 /\ ~last.raised)
       => /\ history # <<>>
          /\ \/ history[Len(history)].role = "tool"
             \/ /\ history[Len(history)].role = "assistant"
                /\ "tool_calls" \notin DOMAIN history[Len(history)]
    /\ \A i \in 1..(Len(history) - 1) :
          ~(history[i].role = "user" /\ history[i + 1].role = "user")

\* C28: in every reachable history each tool turn's tool_name is a key of the
\* assistant's tools and is the function name of the tool-call descriptor
\* right before it, so that render_answer finds the tool of every tool turn.
C28_ToolNameLoaded ==
    \A i \in ToolTurns(history) :
        /\ history[i].tool_name \in DOMAIN tools
        /\ i > 1
        /\ "tool_calls" \in DOMAIN history[i - 1]
        /\ history[i - 1].tool_calls[1].function.name = history[i].tool_name

\* two calls that each ran a tool: the history holds two tool turns, each
\* right after its descriptor
C28_TwoToolTurns ==
    /\ calls = 2
    /\ Len(history) = 6
    /\ ToolTurns(history) = {3, 6}
    /\ history[3].tool_name # history[6].tool_name

-----------------------------------------------------------------------------
(* SpecLiked: runs of create_spotify_playlist on one SpotifyTool instance, *)
(* which keeps the liked songs it fetched in self._song_list.              *)

\* run_tool calls explored on the one instance
MaxRuns == 3

ArgPlaylistOwn == <<P("{"), S("description_playlist"), P(":"), S("p"), P(","),
                    S("use_liked_songs"), P(":"), K("false"), P("}")>>

\* what catch_liked_songs() may return
LikedLists == {<<>>, <<"Song - Band">>}

InitLiked ==
    /\ tools = <<>>
    /\ history = <<>>
    /\ calls = 0
    /\ pinned = NoPinned
    /\ last = NoObservation
    /\ factory = NoFactory
    /\ loader = NoLoader
    /\ classes = NoClasses
    /\ session = NoSession
    /\ toolrun = [phase |-> "liked", inst |-> Construct(SpotifyTool, AssistantBag), runs |-> <<>>]

\* tool.run_tool(kwargs) on the instance the earlier runs left behind; an
\* exception leaves the instance as it is at that moment
RunPlaylist ==
    /\ toolrun.phase = "liked"
    /\ Len(toolrun.runs) < MaxRuns
    /\ \E arguments \in {ArgPlaylist, ArgPlaylistOwn}, liked \in LikedLists,
          payload \in {PayloadPlaylist, PayloadNotJson} :
          \E kwargs \in {JsonLoads(arguments).val.d} :
             \E out \in {run_tool(toolrun.inst, kwargs, Env(payload, TRUE, liked, TRUE))} :
                toolrun' = [toolrun EXCEPT
                               !.inst = out.inst,
                               !.runs = Append(@, [use_liked_songs |-> kwargs["use_liked_songs"] = JBool(TRUE),
                                                   liked |-> liked,
                                                   raised |-> out.raised,
                                                   fetched |-> out.inst.state.fetches
                                                               - toolrun.inst.state.fetches])]
    /\ UNCHANGED <<tools, history, calls, last, factory, loader, classes, session, pinned>>

NextLiked == RunPlaylist

SpecLiked == InitLiked /\ [][NextLiked]_vars

\* C25, as the spec states it: over the runs of create_spotify_playlist on
\* one instance the liked songs are fetched at most once, in the first run
\* with use_liked_songs = true, whatever list the fetch returned (an empty
\* list included); runs with use_liked_songs = false never fetch.
C25_LikedSongsFetchedOnce ==
    toolrun.phase = "liked"
    => \A k \in 1..Len(toolrun.runs) :
          toolrun.runs[k].fetched
             = IF /\ toolrun.runs[k].use_liked_songs
                  /\ \A j \in 1..(k - 1) : ~toolrun.runs[j].use_liked_songs
               THEN 1
               ELSE 0

-----------------------------------------------------------------------------
(* Properties of the hand-off (specification SpecSession), continued.      *)

\* C29, as the spec states it: whenever the mail assistant is the active
\* assistant its IMAP session is logged in; a mail assistant that a
\* switch-back closed is never made active again with its session logged
\* out.
C29_ActiveMailIsLoggedIn ==
    (session.phase = "ready" /\ Active.cls = "MailAssistant")
    => Active.mail = "logged_in"

-----------------------------------------------------------------------------
(* SpecMaster: the construction of the master assistant.  Which of the     *)
(* tool modules the import of the tools package reaches decides which      *)
(* classes are registered; the registry is any selection of the tool       *)
(* classes, in their order.                                                *)

\* the tool classes of the tools package, in the order in which
\* pkgutil.iter_modules names their modules
MasterToolTypes ==
    <<SpotifyTool, MailSummarizerTool, MailModeSwitcher, ModeResetter,
      RecipeSuggestTool, WikipediaFactCheckerTool>>

RECURSIVE Selection(_, _, _)
\* the classes of types from position i on whose position is in chosen
Selection(types, chosen, i) ==
    IF i > Len(types) THEN <<>>
    ELSE (IF i \in chosen THEN <<types[i]>> ELSE <<>>) \o Selection(types, chosen, i + 1)

\* the keyword arguments MasterAssistant.__init__ passes to create_tools
MasterBag(openai) ==
    [list_of_loaded_groups |-> <<"all">>, model |-> MODEL_SEARCH, openai |-> openai]

\* MasterAssistant.__init__: create the tools, wrap them in a ToolLoader and
\* load the group "general"; an exception of create_tools leaves the
\* constructor
MasterAssistant_init(registry) ==
    The({IF all_tools.raised
         THEN [raised |-> TRUE, exc |-> all_tools.exc, all_tools |-> <<>>, tools |-> {}]
         ELSE [raised |-> FALSE, exc |-> "", all_tools |-> all_tools.tools,
               tools |-> AssistantToolNames(all_tools.tools, MasterAssistant)]
         : all_tools \in {create_tools(registry, MasterBag("client"))}})

InitMaster ==
    /\ tools = <<>>
    /\ history = <<>>
    /\ calls = 0
    /\ pinned = NoPinned
    /\ last = NoObservation
    /\ toolrun = NoToolRun
    /\ loader = NoLoader
    /\ classes = NoClasses
    /\ session = NoSession
    /\ \E chosen \in SUBSET (1..Len(MasterToolTypes)) :
          factory = [phase |-> "master", registry |-> Selection(MasterToolTypes, chosen, 1)]

\* master_assistant = MasterAssistant()
ConstructMasterAssistant ==
    /\ factory.phase = "master"
    /\ \E out \in {MasterAssistant_init(factory.registry)} :
          /\ factory' = [factory EXCEPT !.phase = "constructed"] @@ [out |-> out]
          /\ tools' = out.all_tools
    /\ UNCHANGED <<history, calls, last, toolrun, loader, classes, session, pinned>>

NextMaster == ConstructMasterAssistant

SpecMaster == InitMaster /\ [][NextMaster]_vars

\* C30, as the spec states it: the bag MasterAssistant passes to
\* create_tools (list_of_loaded_groups, model, openai) holds every
\* constructor parameter of every registered tool type, MailModeSwitcher's
\* tool_loader included, so that constructing the master assistant never
\* fails with a missing dependency.
C30_MasterBagComplete ==
    factory.phase = "constructed"
    => /\ \A i \in 1..Len(factory.registry) :
             SeqRange(factory.registry[i].params) \subseteq DOMAIN MasterBag("client")
       /\ ~factory.out.raised

====
